---- MODULE Spec2Model ----
(***************************************************************************)
(* Model of dxf2dat.py: extract_airfoil_from_dxf(dxf_filename,             *)
(* output_filename, file_format).  One conversion call is followed from    *)
(* the loading of the drawing to the summary printed after the output file *)
(* is closed.  Coordinates are integers; the quotients the code computes   *)
(* (mean y, normalized coordinates) are exact fractions in lowest terms.   *)
(***************************************************************************)
EXTENDS Integers, Sequences, FiniteSets

(* ----------------------------- bounds ---------------------------------- *)

\* x coordinates of the drawing's vertices are 0..MaxX
MaxX == 2

\* y coordinates of the drawing's vertices are 0..MaxY
MaxY == 1

\* total number of vertices over all curves extracted from the drawing
MaxPts == 3

(* ----------------------------- values ---------------------------------- *)

Point == (0..MaxX) \X (0..MaxY)

\* the file_format argument: the two supported selectors and another one
Formats == {"selig", "lednicer", "xml"}

\* entity.dxftype() of the entities of the modelspace
DxfTypes == {"LWPOLYLINE", "POLYLINE", "LINE"}

Range(s) == {s[i] : i \in DOMAIN s}

RECURSIVE SeqsUpTo(_, _)
\* all sequences over S of length 0..n
SeqsUpTo(S, n) ==
    IF n = 0 THEN {<<>>}
    ELSE LET shorter == SeqsUpTo(S, n - 1)
         IN  shorter \cup {Append(s, e) : s \in {t \in shorter : Len(t) = n - 1}, e \in S}

RECURSIVE TotalPoints(_)
TotalPoints(polys) ==
    IF polys = <<>> THEN 0 ELSE Len(Head(polys)) + TotalPoints(Tail(polys))

(* --------------------------- fractions --------------------------------- *)

Abs(a) == IF a < 0 THEN -a ELSE a

RECURSIVE GCD(_, _)
GCD(a, b) == IF b = 0 THEN a ELSE GCD(b, a % b)

\* the quotient a / b, b # 0, in lowest terms with a positive denominator
Div(a, b) ==
    LET g == GCD(Abs(a), Abs(b))
        s == IF b < 0 THEN -1 ELSE 1
    IN  [n |-> (s * a) \div g, d |-> (s * b) \div g]

Zero == [n |-> 0, d |-> 1]

One == [n |-> 1, d |-> 1]

Less(p, q) == p.n * q.d < q.n * p.d

Leq(p, q) == p.n * q.d <= q.n * p.d

\* an integer coordinate as a fraction
Int2Frac(a) == [n |-> a, d |-> 1]

(* ------------------------ builtins the code uses ----------------------- *)

\* sorted(seq, key=...): stable, ascending by key; keys[i] is the key of
\* seq[i], a fraction
Sorted(seq, keys) ==
    LET rank(i) == Cardinality({j \in DOMAIN seq :
                        \/ Less(keys[j], keys[i])
                        \/ keys[j] = keys[i] /\ j <= i})
    IN  [k \in DOMAIN seq |-> seq[CHOOSE i \in DOMAIN seq : rank(i) = k]]

\* list.sort(key=..., reverse=True): descending by key, equal keys keep
\* their original order
SortedReverse(seq, keys) ==
    LET rank(i) == Cardinality({j \in DOMAIN seq :
                        \/ Less(keys[i], keys[j])
                        \/ keys[j] = keys[i] /\ j <= i})
    IN  [k \in DOMAIN seq |-> seq[CHOOSE i \in DOMAIN seq : rank(i) = k]]

\* min(range(len(pts)), key=lambda i: pts[i][0]): the first index of a
\* vertex of minimum x
MinIndexByXLast(pts) ==
    CHOOSE i \in DOMAIN pts :
        /\ \A j \in DOMAIN pts : pts[i][1] <= pts[j][1]
        /\ \A j \in (i + 1)..Len(pts) : pts[j][1] > pts[i][1]

MinIndexByX(pts) ==
    CHOOSE i \in DOMAIN pts :
        /\ \A j \in DOMAIN pts : pts[i][1] <= pts[j][1]
        /\ \A j \in 1..(i - 1) : pts[j][1] > pts[i][1]

\* max(seq, key=lambda p: p[0]) on normalized points: the first element of
\* maximum x
MaxByXLast(seq) ==
    seq[CHOOSE i \in DOMAIN seq :
        /\ \A j \in DOMAIN seq : Leq(seq[j][1], seq[i][1])
        /\ \A j \in (i + 1)..Len(seq) : Less(seq[j][1], seq[i][1])]

MaxByX(seq) ==
    seq[CHOOSE i \in DOMAIN seq :
        /\ \A j \in DOMAIN seq : Leq(seq[j][1], seq[i][1])
        /\ \A j \in 1..(i - 1) : Less(seq[j][1], seq[i][1])]

\* seq[a:] of Python, a >= 0 (0-based start)
SliceFrom(seq, a) == SubSeq(seq, a + 1, Len(seq))

\* seq[:b] of Python, b >= 0 (0-based, exclusive end)
SliceTo(seq, b) == SubSeq(seq, 1, IF b < Len(seq) THEN b ELSE Len(seq))

Reversed(seq) == [k \in DOMAIN seq |-> seq[Len(seq) + 1 - k]]

(* ------------------------- the drawing's entities ---------------------- *)

\* a vertex of an LWPOLYLINE: (x, y, start_width, end_width, bulge)
LwVertex(p) == <<p[1], p[2], 0, 0, 0>>

\* a vertex of a POLYLINE: an entity whose dxf.location is (x, y, z)
PolyVertex(p) == [location |-> <<p[1], p[2], 0>>]

\* the entities the modelspace can yield next when the curves extracted so
\* far hold `used` vertices: polylines of either kind over at most the
\* remaining vertices (zero vertices included), and a non-polyline entity
Entities(used) ==
    LET curves == SeqsUpTo(Point, MaxPts - used)
    IN  {[dxftype |-> "LWPOLYLINE", vertices |-> [i \in DOMAIN c |-> LwVertex(c[i])]] : c \in curves}
        \cup
        {[dxftype |-> "POLYLINE", vertices |-> [i \in DOMAIN c |-> PolyVertex(c[i])]] : c \in curves}
        \cup
        {[dxftype |-> "LINE", vertices |-> <<>>]}

\* the points list built for one polyline entity
EntityPoints(entity) ==
    IF entity.dxftype = "LWPOLYLINE"
    THEN [i \in DOMAIN entity.vertices |-> <<entity.vertices[i][1], entity.vertices[i][2]>>]
    ELSE [i \in DOMAIN entity.vertices |->
             <<entity.vertices[i].location[1], entity.vertices[i].location[2]>>]

(* ------------------------- surface classification ---------------------- *)

RECURSIVE SumY(_)
SumY(pts) == IF pts = <<>> THEN 0 ELSE Head(pts)[2] + SumY(Tail(pts))

\* sum(y for _, y in pts) / len(pts)
MeanY(pts) == Div(SumY(pts), Len(pts))

\* two polylines: sorted by mean y, highest first
SortByMeanYAscending(polys) == Sorted(polys, [i \in DOMAIN polys |-> MeanY(polys[i])])

SortByMeanY(polys) == SortedReverse(polys, [i \in DOMAIN polys |-> MeanY(polys[i])])

\* one polyline: upper is all_pts[:le_index+1]
SplitUpper(all_pts) == SliceTo(all_pts, (MinIndexByX(all_pts) - 1) + 1)

\* one polyline: lower is all_pts[le_index:]
SplitLower(all_pts) == SliceFrom(all_pts, MinIndexByX(all_pts) - 1)

(* ------------------------------ normalization -------------------------- *)

\* min(x for x, _ in pts)
MinX(pts) == CHOOSE m \in {pts[i][1] : i \in DOMAIN pts} : \A i \in DOMAIN pts : m <= pts[i][1]

\* max(x for x, _ in pts)
MaxXOf(pts) == CHOOSE m \in {pts[i][1] : i \in DOMAIN pts} : \A i \in DOMAIN pts : m >= pts[i][1]

\* next((x, y) for x, y in pts if x == min_x)
LePointLast(pts) ==
    pts[CHOOSE i \in DOMAIN pts :
        /\ pts[i][1] = MinX(pts)
        /\ \A j \in (i + 1)..Len(pts) : pts[j][1] # MinX(pts)]

LePoint(pts) ==
    pts[CHOOSE i \in DOMAIN pts :
        /\ pts[i][1] = MinX(pts)
        /\ \A j \in 1..(i - 1) : pts[j][1] # MinX(pts)]

\* chord_length = max_x - min_x
ChordLengthFromOrigin(pts) == MaxXOf(pts)

ChordLength(pts) == MaxXOf(pts) - MinX(pts)

\* normalize(x, y) for a chord c # 0 and a leading-edge point le
normalize(p, le, c) == <<Div(p[1] - le[1], c), Div(p[2] - le[2], c)>>

KeyDescX(p) == Int2Frac(-p[1])

KeyAscX(p) == Int2Frac(p[1])

\* [normalize(x, y) for x, y in sorted(upper, key=lambda p: -p[0])]
UpperNorm(up, le, c) ==
    LET s == Sorted(up, [i \in DOMAIN up |-> KeyDescX(up[i])]) IN [i \in DOMAIN s |-> normalize(s[i], le, c)]

\* [normalize(x, y) for x, y in sorted(lower, key=lambda p: p[0])]
LowerNorm(lo, le, c) ==
    LET s == Sorted(lo, [i \in DOMAIN lo |-> KeyAscX(lo[i])]) IN [i \in DOMAIN s |-> normalize(s[i], le, c)]

(* --------------------------------- writer ------------------------------ *)

\* a value formatted with :.6f, as the integer number of millionths
Fmt6(q) == (2 * q.n * 1000000 + q.d) \div (2 * q.d)

\* the line f"  {x:.6f}  {y:.6f}\n"
PointLine(p) == [kind |-> "point", a |-> Fmt6(p[1]), b |-> Fmt6(p[2])]

\* the line holding the output file's name without '.dat'
NameLine == [kind |-> "name", a |-> 0, b |-> 0]

\* the line holding the upper-cased name followed by " AIRFOIL"
AirfoilLine == [kind |-> "NAME AIRFOIL", a |-> 0, b |-> 0]

\* the line f"       {len(upper_norm)}.       {len(lower_norm)}.\n"
CountsLine(nu, nl) == [kind |-> "counts", a |-> nu, b |-> nl]

BlankLine == [kind |-> "blank", a |-> 0, b |-> 0]

\* a line of a file that was at the output path before the call
OldLine == [kind |-> "old", a |-> 0, b |-> 0]

Lines(pts) == [i \in DOMAIN pts |-> PointLine(pts[i])]

\* combined = upper_norm + lower_norm[1:]
CombinedAll(un, ln) == un \o ln

Combined(un, ln) == un \o SliceFrom(ln, 1)

SeligText(un, ln) == <<NameLine>> \o Lines(Combined(un, ln))

LednicerText(un, ln) ==
    <<AirfoilLine, CountsLine(Len(un), Len(ln)), BlankLine>>
        \o Lines(Reversed(un)) \o <<BlankLine>> \o Lines(ln)

NoFile == [exists |-> FALSE, lines |-> <<>>]

OldFile == [exists |-> TRUE, lines |-> <<OldLine>>]

(* --------------------------------- state ------------------------------- *)

VARIABLES
    pc,            \* the position of the call in extract_airfoil_from_dxf
    file_format,   \* the file_format argument, from the point where the call
                   \* first reads it (the if of the writer); "" before
    file,          \* the file at output_filename
    polylines,     \* the list of extracted curves
    upper, lower,  \* the classified surfaces
    le_point, chord_length,
    upper_norm, lower_norm,
    te_upper, te_lower,
    exc            \* the exception the call raised, if any

vars == <<pc, file_format, file, polylines, upper, lower, le_point, chord_length,
          upper_norm, lower_norm, te_upper, te_lower, exc>>

NoExc == [type |-> "", msg |-> "", n |-> 0]

Init ==
    /\ pc = "readfile"
    /\ file_format = ""
    /\ file \in {NoFile, OldFile}
    /\ polylines = <<>>
    /\ upper = <<>>
    /\ lower = <<>>
    /\ le_point = <<>>
    /\ chord_length = 0
    /\ upper_norm = <<>>
    /\ lower_norm = <<>>
    /\ te_upper = <<>>
    /\ te_lower = <<>>
    /\ exc = NoExc

Raise(type, msg, n) ==
    /\ pc' = "raised"
    /\ exc' = [type |-> type, msg |-> msg, n |-> n]

\* ezdxf.readfile succeeds
ReadFile ==
    /\ pc = "readfile"
    /\ pc' = "extract"
    /\ UNCHANGED <<file_format, file, polylines, upper, lower, le_point, chord_length,
                   upper_norm, lower_norm, te_upper, te_lower, exc>>

\* ezdxf.readfile raises IOError
ReadFileIOError ==
    /\ pc = "readfile"
    /\ Raise("ValueError", "File not found or invalid DXF", 0)
    /\ UNCHANGED <<file_format, file, polylines, upper, lower, le_point, chord_length,
                   upper_norm, lower_norm, te_upper, te_lower>>

\* ezdxf.readfile raises DXFStructureError
ReadFileStructureError ==
    /\ pc = "readfile"
    /\ Raise("ValueError", "Invalid DXF file structure", 0)
    /\ UNCHANGED <<file_format, file, polylines, upper, lower, le_point, chord_length,
                   upper_norm, lower_norm, te_upper, te_lower>>

\* one iteration of the loop over the modelspace
ExtractEntity ==
    /\ pc = "extract"
    /\ \E entity \in Entities(TotalPoints(polylines)) :
          polylines' =
              IF entity.dxftype \in {"POLYLINE", "LWPOLYLINE"}
              THEN LET points == EntityPoints(entity)
                   IN  IF points # <<>> THEN Append(polylines, points) ELSE polylines
              ELSE polylines
    /\ UNCHANGED <<pc, file_format, file, upper, lower, le_point, chord_length,
                   upper_norm, lower_norm, te_upper, te_lower, exc>>

\* the modelspace has no further entity
ExtractDone ==
    /\ pc = "extract"
    /\ pc' = "classify"
    /\ UNCHANGED <<file_format, file, polylines, upper, lower, le_point, chord_length,
                   upper_norm, lower_norm, te_upper, te_lower, exc>>

\* len(polylines) == 2
ClassifyTwoOrMore ==
    /\ pc = "classify"
    /\ Len(polylines) >= 2
    /\ upper' = SortByMeanY(polylines)[1]
    /\ lower' = SortByMeanY(polylines)[2]
    /\ polylines' = SortByMeanY(polylines)
    /\ pc' = "normalize"
    /\ UNCHANGED <<file_format, file, le_point, chord_length,
                   upper_norm, lower_norm, te_upper, te_lower, exc>>

ClassifyTwo ==
    /\ pc = "classify"
    /\ Len(polylines) = 2
    /\ upper' = SortByMeanY(polylines)[1]
    /\ lower' = SortByMeanY(polylines)[2]
    /\ polylines' = SortByMeanY(polylines)
    /\ pc' = "normalize"
    /\ UNCHANGED <<file_format, file, le_point, chord_length,
                   upper_norm, lower_norm, te_upper, te_lower, exc>>

\* len(polylines) == 1
ClassifyOne ==
    /\ pc = "classify"
    /\ Len(polylines) = 1
    /\ upper' = SplitUpper(polylines[1])
    /\ lower' = SplitLower(polylines[1])
    /\ pc' = "normalize"
    /\ UNCHANGED <<file_format, file, polylines, le_point, chord_length,
                   upper_norm, lower_norm, te_upper, te_lower, exc>>

\* any other number of polylines
ClassifyOther ==
    /\ pc = "classify"
    /\ Len(polylines) \notin {1, 2}
    /\ Raise("ValueError", "Expected 1-2 polylines, found", Len(polylines))
    /\ UNCHANGED <<file_format, file, polylines, upper, lower, le_point, chord_length,
                   upper_norm, lower_norm, te_upper, te_lower>>

\* the chord is not zero: both surfaces are normalized and sorted
Normalize ==
    /\ pc = "normalize"
    /\ ChordLength(upper \o lower) # 0
    /\ le_point' = LePoint(upper \o lower)
    /\ chord_length' = ChordLength(upper \o lower)
    /\ upper_norm' = UpperNorm(upper, le_point', chord_length')
    /\ lower_norm' = LowerNorm(lower, le_point', chord_length')
    /\ pc' = "trailing"
    /\ UNCHANGED <<file_format, file, polylines, upper, lower, te_upper, te_lower, exc>>

\* the chord is zero: the first call of normalize divides by zero
NormalizeZeroChord ==
    /\ pc = "normalize"
    /\ ChordLength(upper \o lower) = 0
    /\ le_point' = LePoint(upper \o lower)
    /\ chord_length' = ChordLength(upper \o lower)
    /\ Raise("ZeroDivisionError", "division by zero", 0)
    /\ UNCHANGED <<file_format, file, polylines, upper, lower,
                   upper_norm, lower_norm, te_upper, te_lower>>

\* the trailing-edge points that the summary reports
TrailingEdges ==
    /\ pc = "trailing"
    /\ te_upper' = MaxByX(upper_norm)
    /\ te_lower' = MaxByX(lower_norm)
    /\ pc' = "open"
    /\ UNCHANGED <<file_format, file, polylines, upper, lower, le_point, chord_length,
                   upper_norm, lower_norm, exc>>

\* open(output_filename, 'w') creates or truncates the file
OpenFile ==
    /\ pc = "open"
    /\ file' = [exists |-> TRUE, lines |-> <<>>]
    /\ pc' = "write"
    /\ UNCHANGED <<file_format, polylines, upper, lower, le_point, chord_length,
                   upper_norm, lower_norm, te_upper, te_lower, exc>>

\* open(output_filename, 'w') fails
OpenFileError ==
    /\ pc = "open"
    /\ Raise("OSError", "cannot open the output file", 0)
    /\ UNCHANGED <<file_format, file, polylines, upper, lower, le_point, chord_length,
                   upper_norm, lower_norm, te_upper, te_lower>>

\* file_format == 'selig'
WriteSelig ==
    /\ pc = "write"
    /\ file_format' = "selig"
    /\ file' = [exists |-> TRUE, lines |-> file.lines \o SeligText(upper_norm, lower_norm)]
    /\ pc' = "report"
    /\ UNCHANGED <<polylines, upper, lower, le_point, chord_length,
                   upper_norm, lower_norm, te_upper, te_lower, exc>>

\* file_format == 'lednicer'
WriteLednicer ==
    /\ pc = "write"
    /\ file_format' = "lednicer"
    /\ file' = [exists |-> TRUE, lines |-> file.lines \o LednicerText(upper_norm, lower_norm)]
    /\ pc' = "report"
    /\ UNCHANGED <<polylines, upper, lower, le_point, chord_length,
                   upper_norm, lower_norm, te_upper, te_lower, exc>>

\* neither branch of the if/elif is taken: the file is closed as opened
WriteNothing ==
    /\ pc = "write"
    /\ file_format' \in Formats \ {"selig", "lednicer"}
    /\ pc' = "report"
    /\ UNCHANGED <<file, polylines, upper, lower, le_point, chord_length,
                   upper_norm, lower_norm, te_upper, te_lower, exc>>

\* the three lines of the summary are printed and the call returns
Report ==
    /\ pc = "report"
    /\ pc' = "done"
    /\ UNCHANGED <<file_format, file, polylines, upper, lower, le_point, chord_length,
                   upper_norm, lower_norm, te_upper, te_lower, exc>>

Next ==
    \/ ReadFile
    \/ ReadFileIOError
    \/ ReadFileStructureError
    \/ ExtractEntity
    \/ ExtractDone
    \/ ClassifyTwo
    \/ ClassifyOne
    \/ ClassifyOther
    \/ Normalize
    \/ NormalizeZeroChord
    \/ TrailingEdges
    \/ OpenFile
    \/ OpenFileError
    \/ WriteSelig
    \/ WriteLednicer
    \/ WriteNothing
    \/ Report

Spec == Init /\ [][Next]_vars

(* ------------------------------- properties ---------------------------- *)

\* the call is past the classification of the curves
Classified ==
    /\ pc \notin {"readfile", "extract", "classify"}
    /\ ~(pc = "raised" /\ exc.msg \in {"File not found or invalid DXF",
                                       "Invalid DXF file structure"})

\* both surfaces are normalized and ordered
Normalized == pc \in {"trailing", "open", "write", "report", "done"}

\* the trailing-edge points are computed
Reported == pc \in {"open", "write", "report", "done"}

\* the output file is written and closed
Written == pc \in {"report", "done"}

Origin == <<Zero, Zero>>

Untouched == file \in {NoFile, OldFile}

\* the mean y of curve a is strictly greater than that of curve b
MeanYGreater(a, b) == SumY(a) * Len(b) > SumY(b) * Len(a)

Last(s) == s[Len(s)]

\* C1: a format selector that is neither 'selig' nor 'lednicer' makes the
\* call raise an error and leaves the output path as it was (no file created,
\* an existing file keeps its content).
C1_UnsupportedFormatRejected ==
    file_format \notin {"", "selig", "lednicer"} => pc = "raised" /\ Untouched

\* C2: one or two curves whose points all share one x make the conversion
\* fail with the degenerate-geometry error, never with a numeric exception.
C2_ZeroChordDegenerateError ==
    (Classified /\ Len(polylines) \in {1, 2} /\ pc # "normalize"
        /\ \A i, j \in DOMAIN (upper \o lower) : (upper \o lower)[i][1] = (upper \o lower)[j][1])
    => pc = "raised" /\ exc.type = "DegenerateGeometryError"

\* C3: a number N of extracted curves other than 1 or 2 (0 included) makes
\* the conversion fail with an error that reports N, before the output file
\* is opened: the output path is as it was.
C3_WrongCurveCount ==
    (Classified /\ Len(polylines) \notin {1, 2})
    => /\ pc = "raised"
       /\ exc = [type |-> "ValueError", msg |-> "Expected 1-2 polylines, found",
                 n |-> Len(polylines)]
       /\ Untouched

C3_Witness ==
    /\ pc = "raised"
    /\ Len(polylines) = 3
    /\ exc.n = 3
    /\ file = OldFile

\* C4: with a non-zero chord, the first point of upper followed by lower
\* whose x is the minimum x of all points is normalized to exactly (0, 0),
\* and that point is among the normalized points.
C4_LeadingEdgeAtOrigin ==
    Normalized =>
        LET pts == upper \o lower
        IN  /\ \A i \in DOMAIN pts :
                   (/\ \A j \in DOMAIN pts : pts[i][1] <= pts[j][1]
                    /\ \A j \in 1..(i - 1) : pts[j][1] # pts[i][1])
                   => normalize(pts[i], le_point, chord_length) = Origin
            /\ Origin \in Range(upper_norm) \cup Range(lower_norm)

C4_Witness ==
    /\ pc = "done"
    /\ le_point = <<1, 1>>
    /\ Len(polylines) = 2
    /\ Origin \in Range(lower_norm)

\* C5: in every valid conversion each normalized x is in [0, 1] and the
\* greatest normalized x over upper and lower together is 1.
C5_UnitChord ==
    Normalized =>
        LET all == upper_norm \o lower_norm
        IN  /\ \A i \in DOMAIN all : Leq(Zero, all[i][1]) /\ Leq(all[i][1], One)
            /\ \E i \in DOMAIN all : all[i][1] = One

C5_Witness ==
    /\ pc = "done"
    /\ chord_length = 2
    /\ \E i \in DOMAIN upper_norm : upper_norm[i][1] = [n |-> 1, d |-> 2]

\* C6: of two curves, the one with the strictly greater mean y becomes upper
\* and the other lower, whichever comes first in the drawing.
C6_HigherMeanIsUpper ==
    [][(pc = "classify" /\ Len(polylines) = 2) =>
          \A a, b \in {1, 2} :
              MeanYGreater(polylines[a], polylines[b])
              => upper' = polylines[a] /\ lower' = polylines[b]]_vars

C6_Witness ==
    /\ pc = "normalize"
    /\ Len(polylines) = 2
    /\ MeanYGreater(upper, lower)
    /\ Len(upper) = 1
    /\ Len(lower) = 2

\* C7 as stated: for a single curve, upper and lower have exactly one point
\* value in common, the leading-edge vertex, before and after normalization.
C7_OnlyLeadingEdgeShared ==
    (Classified /\ Len(polylines) = 1)
    => /\ Range(upper) \cap Range(lower) = {polylines[1][MinIndexByX(polylines[1])]}
       /\ Normalized => Range(upper_norm) \cap Range(lower_norm) = {Origin}

\* C7 amended: for a single curve, upper and lower overlap in exactly one
\* vertex of the curve, the first vertex of minimum x: upper followed by
\* lower without its first element is the curve, and after normalization the
\* last point of upper and the first of lower are both (0, 0).  Any other
\* point value found in both surfaces is one the curve visits both before
\* and after that vertex.
C7_OneSharedVertex ==
    (Classified /\ Len(polylines) = 1)
    => LET c == polylines[1]
           k == Len(upper)
       IN  /\ k >= 1
           /\ Len(lower) >= 1
           /\ upper \o Tail(lower) = c
           /\ upper[k] = lower[1]
           /\ \A j \in DOMAIN c : c[k][1] <= c[j][1]
           /\ \A j \in 1..(k - 1) : c[j][1] > c[k][1]
           /\ \A v \in Range(upper) \cap Range(lower) :
                  \/ v = c[k]
                  \/ \E i \in 1..(k - 1), j \in (k + 1)..Len(c) : c[i] = v /\ c[j] = v
           /\ Normalized =>
                  /\ Len(upper_norm) + Len(lower_norm) = Len(c) + 1
                  /\ Last(upper_norm) = Origin
                  /\ Head(lower_norm) = Origin
                  /\ \A i \in 1..(Len(upper_norm) - 1) : upper_norm[i] # Origin

\* a closed loop through the leading edge: the first and the last vertex
\* coincide and are in both surfaces
C7_Witness ==
    /\ pc = "done"
    /\ Len(polylines) = 1
    /\ Len(upper) = 2
    /\ Len(lower) = 2
    /\ upper[1] = lower[2]
    /\ upper_norm[1] = lower_norm[2]

\* C8: a valid conversion with format 'selig' writes one label line followed
\* by exactly len(upper) + len(lower) - 1 coordinate lines.
C8_SeligLineCount ==
    (Written /\ file_format = "selig")
    => /\ file.exists
       /\ Len(file.lines) = 1 + (Len(upper) + Len(lower) - 1)
       /\ file.lines[1] = NameLine
       /\ \A i \in 2..Len(file.lines) : file.lines[i].kind = "point"

C8_Witness ==
    /\ pc = "done"
    /\ file_format = "selig"
    /\ Len(polylines) = 2
    /\ Len(upper) = 2
    /\ Len(file.lines) = 3

\* C9: in every valid conversion the last point of the ordered upper surface
\* and the first point of the ordered lower surface are both (0, 0), so the
\* selig output, which omits the first point of lower, still holds a line
\* for every normalized point.
C9_DroppedPointIsDuplicate ==
    /\ Normalized => Last(upper_norm) = Origin /\ Head(lower_norm) = Origin
    /\ (Written /\ file_format = "selig")
       => \A i \in DOMAIN lower_norm : \E k \in DOMAIN file.lines :
              file.lines[k] = PointLine(lower_norm[i])

\* C10 as stated: the trailing-edge point of each surface is the first
\* element of the ordered upper surface and the last of the ordered lower
\* surface.
C10_TrailingEdgesAtEnds ==
    Reported => te_upper = Head(upper_norm) /\ te_lower = Last(lower_norm)

\* C10 amended: te_upper is the first element of the ordered upper surface,
\* also when several points share the maximum x; te_lower is the first
\* element of the ordered lower surface that has the maximum x: its x is the
\* x of the last element, and it is the last element when no other point of
\* lower has that x.
C10_TrailingEdges ==
    Reported =>
        /\ te_upper = Head(upper_norm)
        /\ \A i \in DOMAIN upper_norm : Leq(upper_norm[i][1], te_upper[1])
        /\ te_lower[1] = Last(lower_norm)[1]
        /\ \E i \in DOMAIN lower_norm :
               /\ lower_norm[i] = te_lower
               /\ \A j \in 1..(i - 1) : Less(lower_norm[j][1], te_lower[1])
        /\ Cardinality({i \in DOMAIN lower_norm : lower_norm[i][1] = te_lower[1]}) = 1
           => te_lower = Last(lower_norm)

\* the upper surface has two points of maximum x
C10_Witness ==
    /\ pc = "done"
    /\ Len(upper_norm) >= 2
    /\ upper_norm[1][1] = upper_norm[2][1]
    /\ upper_norm[1] # upper_norm[2]
    /\ upper_norm[1][1] = One
    /\ te_upper = upper_norm[1]

====
